---- MODULE Spec2Model ----
(***************************************************************************)
(* A model of the season simulation of space-fantasy-football:             *)
(*   - the round-robin scheduler and the Schedule built from it,           *)
(*   - GameState with its date-ordered event queue,                        *)
(*   - process / handleGameEvent and the event handlers,                   *)
(*   - GameSimulation.run driving process once per animation frame and     *)
(*     publishing the working copy through the GameStateHandle.            *)
(*                                                                         *)
(* A Date is modelled by the number of hours between 1970-01-01 00:00 and  *)
(* the instant, in local wall-clock time of a zone without daylight        *)
(* saving; every Date the program builds falls on a whole hour.            *)
(***************************************************************************)
EXTENDS Integers, Sequences, FiniteSets, TLC

VARIABLES
  gs,        \* gState: the working copy GameSimulation.run passes to process
  hstate,    \* GameStateHandle._state
  stopped,   \* GameSimulation.stopped
  raf,       \* TRUE while a runSim callback is scheduled with requestAnimationFrame
  notified,  \* history: gameStateUpdated notifications of one observer since the last run() call
  ret,       \* history: outcome of the last process call: "none", "true", "false" or "throw"
  disp,      \* history: the events the last process call handed to handleGameEvent
  lastAct,   \* history: the operation that produced this state
  nEnq,      \* history: number of events the host has enqueued
  horizon,   \* the date up to which the model follows the game
  sch        \* the scheduler under test: its inputs and what it returned

vars == <<gs, hstate, stopped, raf, notified, ret, disp, lastAct, nEnq, horizon, sch>>

----------------------------------------------------------------------------
(* Bounds of the model *)

\* the league has 2 * HalfTeams teams
HalfTeams == 2
\* the scheduler is applied to team lists of the lengths 2, 4, ..., 2 * MaxHalf
MaxHalf == 5
\* GameState.init is run in the years FirstYear .. FirstYear + MoreYears; in
\* these years september second falls on every day of the week
FirstYear == 2018
MoreYears == 7
\* a game started by GameState.init is followed for GameDays days: two season
\* ends and the start of the third season
GameDays == 800
\* a hand-seeded state is followed for SeedDays days
SeedDays == 8
\* the host enqueues at most MaxEnq events into a hand-seeded state
MaxEnq == 2
\* a season started by hand on a seeded state is followed for StartDays days:
\* past its season end on june first
StartDays == 280
\* a game is followed while its events are numbered 1 .. MaxEvents
MaxEvents == 80

----------------------------------------------------------------------------
(* Date: the calendar arithmetic of the built-in Date the program relies on *)

\* number of days between 1970-01-01 and the first day of month m (1..12) of year y
DaysFromCivil(y, m, d) ==
  LET yy  == IF m <= 2 THEN y - 1 ELSE y
      era == yy \div 400
      yoe == yy - era * 400
      mp  == IF m > 2 THEN m - 3 ELSE m + 9
      doy == (153 * mp + 2) \div 5 + d - 1
      doe == yoe * 365 + yoe \div 4 - yoe \div 100 + doy
  IN  era * 146097 + doe - 719468

\* the calendar year, month (1..12) and day of month of a day number
CivilFromDays(z0) ==
  LET z   == z0 + 719468
      era == z \div 146097
      doe == z - era * 146097
      yoe == (doe - doe \div 1460 + doe \div 36524 - doe \div 146096) \div 365
      doy == doe - (365 * yoe + yoe \div 4 - yoe \div 100)
      mp  == (5 * doy + 2) \div 153
      d   == doy - (153 * mp + 2) \div 5 + 1
      m   == IF mp < 10 THEN mp + 3 ELSE mp - 9
      y   == yoe + era * 400 + (IF m <= 2 THEN 1 ELSE 0)
  IN  [year |-> y, month |-> m, day |-> d]

\* new Date(year, monthIndex, day, hours): monthIndex counts from 0 and, like
\* day, may run past the end of its range
NewDate(y, mi, d, h) ==
  (DaysFromCivil(y + mi \div 12, (mi % 12) + 1, 1) + d - 1) * 24 + h

getFullYear(date) == CivilFromDays(date \div 24).year

\* monthIndex, 0 = january
getMonth(date) == CivilFromDays(date \div 24).month - 1

getDate(date) == CivilFromDays(date \div 24).day

getHours(date) == date % 24

\* 0 = sunday; 1970-01-01 was a thursday
getDay(date) == ((date \div 24) + 4) % 7

\* date.setDate(date.getDate() + n)
addDays(date, n) == date + n * 24

\* date.setHours(date.getHours() + n)
addHours(date, n) == date + n

----------------------------------------------------------------------------
(* tournament-scheduler: rotate, createRound, createTournamentRounds,      *)
(* createDoubleRoundsTournament and the Schedule class                     *)

DAYS_BETWEEN_ROUNDS == 7

\* a faulty variant: the first team is rotated with the others
rotateAll(teams) ==
  <<teams[Len(teams)]>> \o SubSeq(teams, 1, Len(teams) - 1)

\* the first stays, the last moves to the second place, the others move one
\* place to the right
rotate(teams) ==
  <<teams[1], teams[Len(teams)]>> \o SubSeq(teams, 2, Len(teams) - 1)

\* pairs the i-th team with the i-th from the end
createRound(teams) ==
  [i \in 1..(Len(teams) \div 2) |-> <<teams[i], teams[Len(teams) + 1 - i]>>]

RECURSIVE roundsFrom(_, _)
roundsFrom(teams, left) ==
  IF left = 0 THEN <<>>
  ELSE <<createRound(teams)>> \o roundsFrom(rotate(teams), left - 1)

createTournamentRounds(teams) == roundsFrom(teams, Len(teams) - 1)

swapPair(p) == <<p[2], p[1]>>

mirrorRound(round) == [i \in 1..Len(round) |-> swapPair(round[i])]

\* a faulty variant: the second half repeats the first with the same sides
createDoubleRoundsTournamentSameSides(teams) ==
  createTournamentRounds(teams) \o createTournamentRounds(teams)

\* the rounds of the single cycle, then the same rounds with every pair swapped
createDoubleRoundsTournament(teams) ==
  LET rounds == createTournamentRounds(teams)
  IN  rounds \o [k \in 1..Len(rounds) |-> mirrorRound(rounds[k])]

\* a faulty variant: the identifier is the place of the match in its round
matchIdInRound(k, i) == <<0, i>>

\* the identifier of the i-th match (from 0) of round k (from 0)
matchId(k, i) == <<k, i>>

\* new Schedule(teams, start): one Round per round of the double round robin,
\* a week apart from start on
Schedule(teams, start) ==
  LET rounds == createDoubleRoundsTournament(teams)
  IN  [k \in 1..Len(rounds) |->
        [date    |-> addDays(start, DAYS_BETWEEN_ROUNDS * (k - 1)),
         matches |-> [i \in 1..Len(rounds[k]) |->
                       [id   |-> matchId(k - 1, i - 1),
                        home |-> rounds[k][i][1],
                        away |-> rounds[k][i][2]]]]]

----------------------------------------------------------------------------
(* game-state.ts: GameState                                                *)
(*                                                                         *)
(* A GameState is a record: date, eventQueue, schedules (key -> rounds),   *)
(* matches (id -> Match) and teams (the keys of gs.teams in insertion      *)
(* order).  Players are left out: no operation modelled here reads them.   *)
(* contracts is kept as `aged`, the number of times every contract's       *)
(* duration was decremented.  A match result is kept as "none" or "set":   *)
(* the score simulateMatch draws is not tracked.                           *)
(* History fields, not part of the program's state: every event carries    *)
(* `id`, its identity as an object, given in enqueue order from nextId;    *)
(* `done` is the set of ids dispatched so far, `lastDate` the latest date   *)
(* of a dispatched event (-1 when there is none) and `log` the types of    *)
(* the dispatched seasonEnd, updateContract and seasonStart events, in     *)
(* the order of their dispatch.                                            *)

INIT_MONTH == 7
INIT_DATE == 1
INIT_HOUR == 10

NEXT_HOURS == 12
SEASON_START_MONTH == 8
SEASON_START_DATE == 1
SEASON_END_MONTH == 5
SEASON_END_DATE == 1

\* the budget of one process call, in hours
PROCESS_HOURS == 24

NoRound == -1

NoMatches == [id \in {} |-> [id |-> <<0, 0>>, home |-> 0, away |-> 0, result |-> "none"]]

NoSchedules == [key \in {} |-> <<>>]

\* new GameState(date)
NewGameState(date) ==
  [date |-> date, eventQueue |-> <<>>, schedules |-> NoSchedules,
   matches |-> NoMatches, teams |-> <<>>, aged |-> 0,
   nextId |-> 1, done |-> {}, lastDate |-> -1, log |-> <<>>]

\* the event as the caller builds it; enqueueGameEvent gives it its identity
GameEvent(date, type, round) ==
  [date |-> date, type |-> type, round |-> round, id |-> 0]

\* eventQueue.findIndex(evt => evt.date > e.date), 0 when there is none
RECURSIVE findIndexFrom(_, _, _)
findIndexFrom(q, date, i) ==
  IF i > Len(q) THEN 0
  ELSE IF q[i].date > date THEN i
  ELSE findIndexFrom(q, date, i + 1)

findOlder(q, date) == findIndexFrom(q, date, 1)

\* a faulty variant: the event goes before the first one that is not earlier
RECURSIVE findIndexNotEarlierFrom(_, _, _)
findIndexNotEarlierFrom(q, date, i) ==
  IF i > Len(q) THEN 0
  ELSE IF q[i].date >= date THEN i
  ELSE findIndexNotEarlierFrom(q, date, i + 1)

findNotEarlier(q, date) == findIndexNotEarlierFrom(q, date, 1)

enqueueGameEventBeforeEqual(s, e) ==
  LET q  == s.eventQueue
      ev == [e EXCEPT !.id = s.nextId]
      i  == findNotEarlier(q, e.date)
  IN  [s EXCEPT !.eventQueue =
                   IF i # 0
                   THEN SubSeq(q, 1, i - 1) \o <<ev>> \o SubSeq(q, i, Len(q))
                   ELSE Append(q, ev),
                !.nextId = @ + 1]

enqueueGameEvent(s, e) ==
  LET q  == s.eventQueue
      ev == [e EXCEPT !.id = s.nextId]
      i  == findOlder(q, e.date)
  IN  [s EXCEPT !.eventQueue =
                   IF i # 0
                   THEN SubSeq(q, 1, i - 1) \o <<ev>> \o SubSeq(q, i, Len(q))
                   ELSE Append(q, ev),
                !.nextId = @ + 1]

\* s.teams[t.name] = t for every name, as initTeams does
saveTeams(s, names) == [s EXCEPT !.teams = names]

\* the {date, matchIds} record saveSchedule pushes for a round
ScheduleRound(round) ==
  [date |-> round.date,
   matchIds |-> [i \in 1..Len(round.matches) |-> round.matches[i].id]]

\* the matches of the rounds from k on, in the order saveSchedule stores them
RECURSIVE matchesFrom(_, _)
matchesFrom(rounds, k) ==
  IF k > Len(rounds) THEN <<>>
  ELSE rounds[k].matches \o matchesFrom(rounds, k + 1)

\* s.matches[m.id] = m for every m of ms, in order
RECURSIVE storeMatches(_, _)
storeMatches(matches, ms) ==
  IF ms = <<>> THEN matches
  ELSE storeMatches(
         (Head(ms).id :> [id |-> Head(ms).id, home |-> Head(ms).home,
                          away |-> Head(ms).away, result |-> "none"])
           @@ matches,
         Tail(ms))

saveSchedule(s, schd, key) ==
  [s EXCEPT !.schedules = (key :> [k \in 1..Len(schd) |-> ScheduleRound(schd[k])]) @@ @,
            !.matches = storeMatches(@, matchesFrom(schd, 1))]

----------------------------------------------------------------------------
(* game-simulation: the enqueue helpers and the season schedule            *)

hasNow(s) == "now" \in DOMAIN s.schedules

\* gs.schedules.now?.[round] exists (round counts from 0)
hasRound(s, round) ==
  hasNow(s) /\ round >= 0 /\ round < Len(s.schedules["now"])

\* match.result = { home: goals(), away: goals() }; saveSchedule stores every
\* match whose id it lists, so gs.matches[matchId] is never undefined here
simulateMatch(s, matchId_) ==
  [s EXCEPT !.matches[matchId_].result = "set"]

RECURSIVE simulateMatches(_, _)
simulateMatches(s, ids) ==
  IF ids = <<>> THEN s
  ELSE simulateMatches(simulateMatch(s, Head(ids)), Tail(ids))

\* a faulty variant: no match is simulated
simulateRoundNone(s, round) == s

simulateRound(s, round) ==
  IF hasRound(s, round)
  THEN simulateMatches(s, s.schedules["now"][round + 1].matchIds)
  ELSE s

enqueueSimRoundEvent(s, round) ==
  IF hasRound(s, round)
  THEN enqueueGameEvent(s, GameEvent(s.schedules["now"][round + 1].date, "simRound", round))
  ELSE s

\* a faulty variant: the first day of this month, a date that has passed
enqueueSkillUpdateEventThisMonth(s) ==
  enqueueGameEvent(s,
    GameEvent(NewDate(getFullYear(s.date), getMonth(s.date), 1, 0), "skillUpdate", NoRound))

\* the first day of next month
enqueueSkillUpdateEvent(s) ==
  enqueueGameEvent(s,
    GameEvent(NewDate(getFullYear(s.date), getMonth(s.date) + 1, 1, 0), "skillUpdate", NoRound))

\* june first of next year
enqueueSeasonEndEvent(s) ==
  enqueueGameEvent(s,
    GameEvent(NewDate(getFullYear(s.date) + 1, SEASON_END_MONTH, SEASON_END_DATE, 0),
              "seasonEnd", NoRound))

\* september first of this year
enqueueSeasonStartEvent(s) ==
  enqueueGameEvent(s,
    GameEvent(NewDate(getFullYear(s.date), SEASON_START_MONTH, SEASON_START_DATE, 0),
              "seasonStart", NoRound))

\* a faulty variant: the day before the given date
enqueueUpdateContractEventDayBefore(s, d) ==
  enqueueGameEvent(s, GameEvent(addDays(d, -1), "updateContract", NoRound))

\* the day after the given date
enqueueUpdateContractEvent(s, d) ==
  enqueueGameEvent(s, GameEvent(addDays(d, 1), "updateContract", NoRound))

\* september second of the year of gs.date
seasonCutoff(s) ==
  NewDate(getFullYear(s.date), SEASON_START_MONTH, SEASON_START_DATE + 1, 0)

\* a faulty variant: september second at 00:00 is still in time
tooLateForScheduleStrict(s) == seasonCutoff(s) < s.date

\* newSeasonSchedule throws
tooLateForSchedule(s) == seasonCutoff(s) <= s.date

\* newSeasonSchedule when it does not throw
newSeasonSchedule(s, teams) ==
  LET start == seasonCutoff(s)
      daysToSunday == (7 - getDay(start)) % 7
  IN  saveSchedule(s, Schedule(teams, addDays(start, daysToSunday)), "now")

\* the key {startYear}-{endYear} of the current season
endedSeasonKey(schd) ==
  ToString(getFullYear(schd[1].date)) \o "-" \o ToString(getFullYear(schd[Len(schd)].date))

storeEndedSeasonSchedule(s) ==
  IF hasNow(s)
  THEN [s EXCEPT !.schedules =
                   (endedSeasonKey(s.schedules["now"]) :> s.schedules["now"]) @@ @]
  ELSE s

\* Object.values(gs.contracts).forEach(c => c.duration--)
updateContracts(s) == [s EXCEPT !.aged = @ + 1]

----------------------------------------------------------------------------
(* game-simulation: the handlers.  A handler yields the state it leaves,   *)
(* the boolean it returns and whether it threw instead of returning.       *)

Returned(s, b) == [gs |-> s, ret |-> b, threw |-> FALSE]

Threw(s) == [gs |-> s, ret |-> FALSE, threw |-> TRUE]

\* a faulty variant: a simulated round asks for a stop
handleSimRoundStops(s, round) ==
  Returned(enqueueSimRoundEvent(simulateRound(s, round), round + 1), TRUE)

\* a faulty variant: the round after the next one is enqueued
handleSimRoundSkips(s, round) ==
  Returned(enqueueSimRoundEvent(simulateRound(s, round), round + 2), FALSE)

handleSimRound(s, round) ==
  Returned(enqueueSimRoundEvent(simulateRound(s, round), round + 1), FALSE)

\* a faulty variant: the next skillUpdate is not enqueued
handleSkillUpdateOnce(s) == Returned(s, TRUE)

\* a faulty variant: a skillUpdate asks for no stop
handleSkillUpdateContinues(s) == Returned(enqueueSkillUpdateEvent(s), FALSE)

\* updateSkills touches the players only
handleSkillUpdate(s) == Returned(enqueueSkillUpdateEvent(s), TRUE)

handleSeasonEnd(s, e) ==
  Returned(
    enqueueUpdateContractEvent(
      enqueueSeasonStartEvent(storeEndedSeasonSchedule(s)), e.date),
    TRUE)

handleSeasonStart(s) ==
  IF tooLateForSchedule(s) THEN Threw(s)
  ELSE Returned(
         enqueueSeasonEndEvent(enqueueSimRoundEvent(newSeasonSchedule(s, s.teams), 0)),
         TRUE)

\* a faulty variant: the handler enqueues the next updateContract
handleUpdateContractsAgain(s) ==
  Returned(enqueueUpdateContractEvent(updateContracts(s), s.date), FALSE)

\* renewExipiringContracts and removeExpiredContracts belong to Team
handleUpdateContracts(s) == Returned(updateContracts(s), FALSE)

handleGameEvent(s, evt) ==
  IF evt.type = "simRound" THEN handleSimRound(s, evt.round)
  ELSE IF evt.type = "skillUpdate" THEN handleSkillUpdate(s)
  ELSE IF evt.type = "seasonEnd" THEN handleSeasonEnd(s, evt)
  ELSE IF evt.type = "seasonStart" THEN handleSeasonStart(s)
  ELSE IF evt.type = "updateContract" THEN handleUpdateContracts(s)
  ELSE Returned(s, FALSE)

\* the loop of process from its counter t on; disp is the event handed to
\* handleGameEvent, if any
RECURSIVE processFrom(_, _)
processFrom(s, t) ==
  IF t < PROCESS_HOURS /\ Len(s.eventQueue) # 0
  THEN IF s.date >= Head(s.eventQueue).date
       THEN LET evt == Head(s.eventQueue)
                h   == handleGameEvent([s EXCEPT !.eventQueue = Tail(@)], evt)
            IN  [gs |-> h.gs, ret |-> h.ret, threw |-> h.threw, disp |-> <<evt>>]
       ELSE processFrom([s EXCEPT !.date = addHours(@, NEXT_HOURS)], t + NEXT_HOURS)
  ELSE [gs |-> s, ret |-> (Len(s.eventQueue) = 0), threw |-> FALSE, disp |-> <<>>]

\* a faulty variant: the loop gets one more turn
processThreeTurns(s) == processFrom(s, 0 - NEXT_HOURS)

\* a faulty variant: the handled event stays in the queue
processKeepsEvent(s) ==
  LET r == processFrom(s, 0)
  IN  IF r.disp = <<>> THEN r
      ELSE [r EXCEPT !.gs.eventQueue = <<r.disp[1]>> \o @]

process(s) == processFrom(s, 0)

SeasonTypes == {"seasonEnd", "updateContract", "seasonStart"}

\* history: the dispatched events are noted in done, lastDate and log
RECURSIVE noteDispatched(_, _)
noteDispatched(s, evts) ==
  IF evts = <<>> THEN s
  ELSE noteDispatched(
         [s EXCEPT !.done = @ \cup {Head(evts).id},
                   !.lastDate = IF Head(evts).date > @ THEN Head(evts).date ELSE @,
                   !.log = IF Head(evts).type \in SeasonTypes
                           THEN Append(@, Head(evts).type) ELSE @],
         Tail(evts))

----------------------------------------------------------------------------
(* game-state.ts: GameState.init and its helpers                           *)

\* the team names of the league
teamNames == [i \in 1..(2 * HalfTeams) |-> i]

initGameEvents(s) ==
  enqueueSeasonEndEvent(enqueueSkillUpdateEvent(enqueueSimRoundEvent(s, 0)))

\* GameState.init() run in the given year
initGameState(year) ==
  initGameEvents(
    saveTeams(
      newSeasonSchedule(
        NewGameState(NewDate(year, INIT_MONTH, INIT_DATE, INIT_HOUR)), teamNames),
      teamNames))

----------------------------------------------------------------------------
(* GameSimulation and GameStateHandle                                      *)

simVars == <<gs, hstate, stopped, raf, notified, ret, disp, lastAct, nEnq, horizon>>

SchIdle == [phase |-> "idle", teams |-> <<>>, start |-> 0,
            single |-> <<>>, double |-> <<>>, rounds |-> <<>>]

\* new GameSimulation(new GameStateHandle(state)), followed for `days` days
SimInit(state, days) ==
  /\ hstate = state
  /\ gs = state
  /\ stopped = TRUE
  /\ raf = FALSE
  /\ notified = 0
  /\ ret = "none"
  /\ disp = <<>>
  /\ lastAct = "init"
  /\ nEnq = 0
  /\ horizon = addDays(state.date, days)
  /\ sch = SchIdle

\* run(): the host starts a run only when none is going on (the modal page
\* the class comment asks for); gState is a deep copy of the handle's state
Run ==
  /\ ~raf
  /\ stopped' = FALSE
  /\ gs' = hstate
  /\ raf' = TRUE
  /\ notified' = 0
  /\ ret' = "none"
  /\ disp' = <<>>
  /\ lastAct' = "run"
  /\ UNCHANGED <<hstate, nEnq, horizon, sch>>

\* a frame was requested, and the model still follows the game: it stops at
\* the horizon, or when MaxEvents events were enqueued
FrameDue == raf /\ gs.date < horizon /\ gs.nextId <= MaxEvents

\* a faulty variant: the working copy is published on every frame
TickPublishesAlways ==
  /\ FrameDue
  /\ LET r == process(gs)
         g == noteDispatched(r.gs, r.disp)
     IN  /\ gs' = g
         /\ disp' = r.disp
         /\ lastAct' = "tick"
         /\ IF r.threw
            THEN /\ ret' = "throw"
                 /\ raf' = FALSE
                 /\ UNCHANGED <<stopped, hstate, notified>>
            ELSE /\ ret' = IF r.ret THEN "true" ELSE "false"
                 /\ stopped' = r.ret
                 /\ hstate' = g
                 /\ notified' = notified + 1
                 /\ raf' = ~r.ret
  /\ UNCHANGED <<nEnq, horizon, sch>>

\* runSim, the callback of one animation frame:
\*   this.stopped = process(gState);
\*   this.stopped ? (this.gsh.state = gState) : requestAnimationFrame(runSim);
\* when process throws, the callback ends there: nothing is assigned, no frame
\* is requested.
Tick ==
  /\ FrameDue
  /\ LET r == process(gs)
         g == noteDispatched(r.gs, r.disp)
     IN  /\ gs' = g
         /\ disp' = r.disp
         /\ lastAct' = "tick"
         /\ IF r.threw
            THEN /\ ret' = "throw"
                 /\ raf' = FALSE
                 /\ UNCHANGED <<stopped, hstate, notified>>
            ELSE /\ ret' = IF r.ret THEN "true" ELSE "false"
                 /\ stopped' = r.ret
                 /\ IF r.ret
                    THEN hstate' = g /\ notified' = notified + 1 /\ raf' = FALSE
                    ELSE raf' = TRUE /\ UNCHANGED <<hstate, notified>>
  /\ UNCHANGED <<nEnq, horizon, sch>>

\* the host sets the public flag of a running simulation
HostSetStopped ==
  /\ raf
  /\ ~stopped
  /\ stopped' = TRUE
  /\ lastAct' = "stop"
  /\ UNCHANGED <<gs, hstate, raf, notified, ret, disp, nEnq, horizon, sch>>

EventTypes == {"simRound", "skillUpdate", "seasonEnd", "seasonStart", "updateContract"}

\* what the host enqueues: every type the handlers know and one they do not,
\* dated around the current date
HostTypes == EventTypes \cup {"other"}

HostOffsets == {0, 12, 24, 60}

\* the host, between two runs, adds an event to the state of the handle:
\*   const s = gsh.state; GameState.enqueueGameEvent(s, e); gsh.state = s;
HostEnqueue ==
  /\ ~raf
  /\ nEnq < MaxEnq
  /\ \E type \in HostTypes, off \in HostOffsets :
       hstate' = enqueueGameEvent(hstate,
                   GameEvent(addHours(hstate.date, off), type,
                             IF type = "simRound" THEN 0 ELSE NoRound))
  /\ notified' = notified + 1
  /\ nEnq' = nEnq + 1
  /\ lastAct' = "enqueue"
  /\ UNCHANGED <<gs, stopped, raf, ret, disp, horizon, sch>>

----------------------------------------------------------------------------
(* Spec: a hand-seeded state (the teams, no schedule, an empty queue) to   *)
(* which the host adds events and on which it runs the simulation          *)

\* two days before the day of the season start, at the hour GameState.init uses
SeedDate ==
  addDays(NewDate(FirstYear, SEASON_START_MONTH, SEASON_START_DATE, INIT_HOUR), 0 - 2)

SeedState == saveTeams(NewGameState(SeedDate), teamNames)

Init == SimInit(SeedState, SeedDays)

Next == Run \/ Tick \/ HostSetStopped \/ HostEnqueue

Spec == Init /\ [][Next]_vars

----------------------------------------------------------------------------
(* SpecGame: the game GameState.init builds, driven by run() alone         *)

GameInit == \E y \in FirstYear..(FirstYear + MoreYears) : SimInit(initGameState(y), GameDays)

GameNext == Run \/ Tick

SpecGame == GameInit /\ [][GameNext]_vars

\* the same game with a host that keeps the simulation going: the browser
\* delivers every frame that was requested, and the host starts a new run
\* after each stop.  This is weak fairness of Tick and of Run, written with
\* the conditions that enable the two actions (a frame changes the date, the
\* queue or the run, and run() requests a frame).
FairTick == []<>~FrameDue \/ []<><<Tick>>_vars

FairRun == []<>raf \/ []<><<Run>>_vars

SpecGameFair == GameInit /\ [][GameNext]_vars /\ FairTick /\ FairRun

(***************************************************************************)
(* A season started by hand: a state that holds eight teams and nothing    *)
(* else, dated around september second of a year, is handed a seasonStart  *)
(* event; when the handler returns, the host drives process by runs.       *)
(***************************************************************************)
eightTeams == [i \in 1..8 |-> i]

\* hours from september second 00:00 to the date of the seeded state
StartOffsets == {0 - 38, 0 - 14, 0 - 2, 0, 10, 22}

StartState(year, offset) ==
  saveTeams(
    NewGameState(
      addHours(NewDate(year, SEASON_START_MONTH, SEASON_START_DATE + 1, 0), offset)),
    eightTeams)

StartInit ==
  \E year \in FirstYear..(FirstYear + MoreYears), offset \in StartOffsets :
    SimInit(StartState(year, offset), StartDays)

\* handleGameEvent(gs, {date, type: "seasonStart"}) on the state of the handle
CallSeasonStart ==
  /\ lastAct = "init"
  /\ LET r == handleGameEvent(hstate, GameEvent(hstate.date, "seasonStart", NoRound))
     IN  /\ hstate' = r.gs
         /\ gs' = r.gs
         /\ ret' = IF r.threw THEN "throw" ELSE IF r.ret THEN "true" ELSE "false"
  /\ lastAct' = "seasonStart"
  /\ UNCHANGED <<stopped, raf, notified, disp, nEnq, horizon, sch>>

\* the host starts a run once the handler has returned
StartRun == lastAct # "init" /\ ret # "throw" /\ Run

StartNext == CallSeasonStart \/ StartRun \/ Tick

SpecStart == StartInit /\ [][StartNext]_vars

----------------------------------------------------------------------------
(* SpecSched: the scheduler applied to lists of distinct teams of every    *)
(* even length up to 2 * MaxHalf, and the Schedule built from it.  The     *)
(* scheduler never compares two teams, so the lists of one length differ   *)
(* by a renaming only; the model takes the 2n shifted and reversed lists.  *)

\* the teams 1..n listed from team s + 1 on, upwards or downwards
ShiftedTeams(n, s, up) ==
  [i \in 1..n |-> IF up THEN ((i - 1 + s) % n) + 1 ELSE ((n - i + s) % n) + 1]

TeamLists ==
  UNION {{ShiftedTeams(2 * h, s, up) : s \in 0..(2 * h - 1), up \in BOOLEAN} : h \in 1..MaxHalf}

\* the start dates given to new Schedule: a sunday and the first of a month
\* in a year that has a 29th of february within the season
StartDates == {NewDate(FirstYear, 8, 5, 0), NewDate(FirstYear + 2, 8, 1, 0)}

SchedInit ==
  /\ sch \in {[phase |-> "input", teams |-> t, start |-> 0,
               single |-> <<>>, double |-> <<>>, rounds |-> <<>>] : t \in TeamLists}
  /\ hstate = SeedState
  /\ gs = SeedState
  /\ stopped = TRUE
  /\ raf = FALSE
  /\ notified = 0
  /\ ret = "none"
  /\ disp = <<>>
  /\ lastAct = "init"
  /\ nEnq = 0
  /\ horizon = SeedState.date

CallCreateTournamentRounds ==
  /\ sch.phase = "input"
  /\ sch' = [sch EXCEPT !.phase = "single",
                        !.single = createTournamentRounds(sch.teams)]
  /\ UNCHANGED simVars

CallCreateDoubleRoundsTournament ==
  /\ sch.phase = "single"
  /\ sch' = [sch EXCEPT !.phase = "double",
                        !.double = createDoubleRoundsTournament(sch.teams)]
  /\ UNCHANGED simVars

CallNewSchedule ==
  /\ sch.phase = "double"
  /\ \E d \in StartDates :
       sch' = [sch EXCEPT !.phase = "built", !.start = d,
                          !.rounds = Schedule(sch.teams, d)]
  /\ UNCHANGED simVars

SchedNext ==
  CallCreateTournamentRounds \/ CallCreateDoubleRoundsTournament \/ CallNewSchedule

SpecSched == SchedInit /\ [][SchedNext]_vars

----------------------------------------------------------------------------
(* The scheduler's claims *)

TeamSet(teams) == {teams[i] : i \in 1..Len(teams)}

\* the teams of a round, one entry per side of a pair
RoundSides(round) == {<<i, side>> : i \in 1..Len(round), side \in 1..2}

\* every team of `teams` is in exactly one pair of the round
PerfectMatching(round, teams) ==
  /\ 2 * Len(round) = Len(teams)
  /\ \A t \in TeamSet(teams) :
       Cardinality({p \in RoundSides(round) : round[p[1]][p[2]] = t}) = 1

\* the places <<k, i>> of the pairs of a list of rounds
PairPlaces(rounds) ==
  UNION {{<<k, i>> : i \in 1..Len(rounds[k])} : k \in 1..Len(rounds)}

\* C8: for n distinct teams, n even, createTournamentRounds returns n - 1
\* rounds, every round is a perfect matching of the teams, and every
\* unordered pair of teams is in exactly one round.
C8_SingleRoundRobin ==
  sch.phase \in {"single", "double", "built"} =>
    LET r == sch.single
        T == TeamSet(sch.teams)
    IN  /\ Len(r) = Len(sch.teams) - 1
        /\ \A k \in 1..Len(r) : PerfectMatching(r[k], sch.teams)
        /\ \A a \in T : \A b \in T \ {a} :
             Cardinality({p \in PairPlaces(r) :
                            {r[p[1]][p[2]][1], r[p[1]][p[2]][2]} = {a, b}}) = 1

C8_Witness ==
  /\ sch.phase = "single"
  /\ Len(sch.teams) = 2 * MaxHalf
  /\ sch.teams[1] # 1
  /\ Len(sch.single) = 2 * MaxHalf - 1

\* C9: for n distinct teams, n even, createDoubleRoundsTournament returns
\* 2(n - 1) rounds: the rounds of the single cycle, then the same rounds with
\* the two members of every pair swapped; every round is a perfect matching
\* and no ordered (home, away) pair is there twice.
C9_DoubleRoundRobin ==
  sch.phase \in {"double", "built"} =>
    LET d == sch.double
        r == sch.single
        n == Len(sch.teams)
    IN  /\ Len(d) = 2 * (n - 1)
        /\ \A k \in 1..(n - 1) :
             /\ d[k] = r[k]
             /\ Len(d[n - 1 + k]) = Len(r[k])
             /\ \A i \in 1..Len(r[k]) :
                  d[n - 1 + k][i] = <<r[k][i][2], r[k][i][1]>>
        /\ \A k \in 1..Len(d) : PerfectMatching(d[k], sch.teams)
        /\ \A p \in PairPlaces(d) : \A q \in PairPlaces(d) :
             d[p[1]][p[2]] = d[q[1]][q[2]] => p = q

C9_Witness ==
  /\ sch.phase = "double"
  /\ Len(sch.teams) = 2 * MaxHalf
  /\ Len(sch.double) = 2 * (2 * MaxHalf - 1)
  /\ sch.double[1][1] = <<sch.teams[1], sch.teams[2 * MaxHalf]>>
  /\ sch.double[2 * MaxHalf][1] = <<sch.teams[2 * MaxHalf], sch.teams[1]>>

\* the places <<k, i>> of the matches of a Schedule
MatchPlaces(rounds) ==
  UNION {{<<k, i>> : i \in 1..Len(rounds[k].matches)} : k \in 1..Len(rounds)}

\* C10: in a Schedule built from n teams and the start date D, round k
\* (from 0) is dated D + 7k days, and no two matches of the whole schedule
\* have the same identifier.
C10_ScheduleDatesAndIds ==
  sch.phase = "built" =>
    LET rs == sch.rounds
    IN  /\ Len(rs) = Len(sch.double)
        /\ \A k \in 1..Len(rs) :
             /\ rs[k].date = sch.start + (k - 1) * 7 * 24
             /\ k > 1 =>
                  /\ rs[k].date - rs[k - 1].date = 7 * 24
                  /\ getDay(rs[k].date) = getDay(rs[k - 1].date)
             /\ Len(rs[k].matches) = Len(sch.double[k])
             /\ \A i \in 1..Len(rs[k].matches) :
                  <<rs[k].matches[i].home, rs[k].matches[i].away>> = sch.double[k][i]
        /\ \A p \in MatchPlaces(rs) : \A q \in MatchPlaces(rs) :
             rs[p[1]].matches[p[2]].id = rs[q[1]].matches[q[2]].id => p = q

C10_Witness ==
  /\ sch.phase = "built"
  /\ Len(sch.teams) = 2 * MaxHalf
  /\ Len(sch.rounds) = 2 * (2 * MaxHalf - 1)
  /\ getMonth(sch.start) = 8
  /\ getMonth(sch.rounds[Len(sch.rounds)].date) < 8
  /\ sch.rounds[2].matches[1].id # sch.rounds[1].matches[1].id

----------------------------------------------------------------------------
(* The claims on the event queue, process and the simulation driver *)

\* q is in ascending order of date, the events of one date in the order in
\* which they were enqueued
StableSorted(q) ==
  \A i \in 1..Len(q) : \A j \in (i + 1)..Len(q) :
    \/ q[i].date < q[j].date
    \/ q[i].date = q[j].date /\ q[i].id < q[j].id

\* q2 is q with one more event, put right before the first event of q that is
\* dated strictly later, or at the end when q has none
InsertedBeforeFirstLater(q, q2) ==
  /\ Len(q2) = Len(q) + 1
  /\ \E i \in 1..Len(q2) :
       /\ q2 = SubSeq(q, 1, i - 1) \o <<q2[i]>> \o SubSeq(q, i, Len(q))
       /\ \A j \in 1..(i - 1) : q[j].date <= q2[i].date
       /\ i <= Len(q) => q[i].date > q2[i].date

\* C1: enqueueGameEvent puts the new event right before the first queued
\* event dated strictly later (at the end when there is none); after every
\* enqueue and every dispatch the queue is in ascending order of date and
\* the events of one date are in the order in which they were enqueued.
C1_QueueStableSorted ==
  [][/\ StableSorted(gs'.eventQueue)
     /\ StableSorted(hstate'.eventQueue)
     /\ lastAct' = "enqueue" =>
          InsertedBeforeFirstLater(hstate.eventQueue, hstate'.eventQueue)]_vars

\* an event was just enqueued behind one of its own date and before a later one
C1_Witness ==
  /\ lastAct = "enqueue"
  /\ \E i \in 1..(Len(hstate.eventQueue) - 2) :
       /\ hstate.eventQueue[i].date = hstate.eventQueue[i + 1].date
       /\ hstate.eventQueue[i + 1].id = hstate.nextId - 1
       /\ hstate.eventQueue[i + 2].date > hstate.eventQueue[i + 1].date
  /\ hstate.done # {}

\* C2: from the state GameState.init builds, no process call dispatches an
\* event dated earlier than an event dispatched before it.
C2_DispatchInDateOrder ==
  [][(lastAct' = "tick" /\ disp' # <<>>) => disp'[1].date >= gs.lastDate]_vars

\* the updateContract event a seasonEnd handler enqueued is dispatched, after
\* the rounds of a season and the seasonEnd itself
C2_Witness ==
  /\ lastAct = "tick"
  /\ disp # <<>>
  /\ disp[1].type = "updateContract"
  /\ gs.lastDate = disp[1].date
  /\ Cardinality(gs.done) > 2 * (2 * HalfTeams - 1)

\* C3: one process call dispatches at most one event: the first of the queue,
\* which no queued event precedes in date, and only when its date is not
\* after the current date; the event leaves the queue and was not dispatched
\* before.
C3_OneDueEventOnce ==
  [][lastAct' = "tick" =>
       /\ Len(disp') <= 1
       /\ disp' # <<>> =>
            /\ gs.eventQueue # <<>>
            /\ disp'[1] = Head(gs.eventQueue)
            /\ \A i \in 1..Len(gs.eventQueue) : gs.eventQueue[i].date >= disp'[1].date
            /\ disp'[1].date <= gs'.date
            /\ disp'[1].id \notin gs.done
            /\ \A i \in 1..Len(gs'.eventQueue) : gs'.eventQueue[i].id # disp'[1].id]_vars

\* an event was dispatched from a queue that held more, after the date moved
C3_Witness ==
  /\ lastAct = "tick"
  /\ Len(disp) = 1
  /\ disp[1].date < gs.date
  /\ gs.eventQueue # <<>>
  /\ gs.done # {disp[1].id}

StopTypes == {"skillUpdate", "seasonEnd", "seasonStart"}

\* C4 as the spec states it: process reports stop exactly when the queue was
\* empty on entry or the event it dispatched is a skillUpdate, seasonEnd or
\* seasonStart, and reports continue in every other case.
C4_StopExactlyOnStopTypes ==
  [][lastAct' = "tick" =>
       LET stopCase == \/ gs.eventQueue = <<>>
                       \/ disp' # <<>> /\ disp'[1].type \in StopTypes
       IN  /\ stopCase <=> ret' = "true"
           /\ ~stopCase <=> ret' = "false"]_vars

\* C4 amended: process reports stop exactly when the queue was empty on entry
\* or the event it dispatched is a skillUpdate, a seasonEnd, or a seasonStart
\* handled before september second of the current year; a seasonStart
\* handled later makes process throw, and it reports continue in every other
\* case.
C4_StopUnlessThrown ==
  [][lastAct' = "tick" =>
       LET late     == tooLateForSchedule(gs')
           started  == disp' # <<>> /\ disp'[1].type = "seasonStart"
           stopCase == \/ gs.eventQueue = <<>>
                       \/ disp' # <<>> /\ disp'[1].type \in {"skillUpdate", "seasonEnd"}
                       \/ started /\ ~late
       IN  /\ stopCase <=> ret' = "true"
           /\ (started /\ late) <=> ret' = "throw"
           /\ (~stopCase /\ ~(started /\ late)) <=> ret' = "false"]_vars

\* process has reported continue after handing an event of an unknown type
\* to handleGameEvent, in a state where a seasonStart was handled in time
C4_Witness ==
  /\ lastAct = "tick"
  /\ ret = "false"
  /\ disp # <<>>
  /\ disp[1].type = "other"
  /\ hasNow(gs)

\* C5: the current date never decreases; one process call moves it by 0, 12
\* or 24 hours: by 0 when the queue is empty or its first event is due on
\* entry, by 12 when the first event is due after the first increment, by 24
\* with the queue left as it was when it is due at neither check.
C5_DateAdvance ==
  [][/\ hstate'.date >= hstate.date
     /\ lastAct' = "tick" =>
          LET q   == gs.eventQueue
              d   == gs.date
              adv == gs'.date - d
          IN  /\ adv \in {0, 12, 24}
              /\ adv = 0 <=> (q = <<>> \/ Head(q).date <= d)
              /\ adv = 12 <=> (q # <<>> /\ Head(q).date > d /\ Head(q).date <= d + 12)
              /\ adv = 24 <=> (q # <<>> /\ Head(q).date > d + 12)
              /\ adv = 24 => (gs'.eventQueue = q /\ disp' = <<>> /\ ret' = "false")
              /\ (adv = 12 /\ ret' # "throw") => Len(disp') = 1]_vars

\* a run went through a call that moved the date by 24 hours and ended with a
\* call that dispatched after one increment
C5_Witness ==
  /\ lastAct = "tick"
  /\ ret = "true"
  /\ disp # <<>>
  /\ disp[1].date > hstate.date - 12
  /\ disp[1].date <= hstate.date
  /\ hstate.date - SeedState.date >= 36
  /\ (hstate.date - SeedState.date) % 24 = 12

\* C6: while a run goes on the state of the handle stays what it was when
\* the run started; the frame on which process reports stop assigns the
\* working copy to the handle and notifies the observers, once, and ends the
\* run; no other frame assigns or notifies.
C6_PublishOnceOnStop ==
  [][/\ raf => notified = 0
     /\ lastAct' = "run" => (gs' = hstate /\ hstate' = hstate)
     /\ (raf /\ lastAct' # "tick") => (hstate' = hstate /\ notified' = notified)
     /\ lastAct' = "tick" =>
          IF ret' = "true"
          THEN hstate' = gs' /\ notified' = 1 /\ ~raf' /\ stopped'
          ELSE hstate' = hstate /\ notified' = notified]_vars

\* a run of several frames that dispatched more than one event has stopped
\* and published
C6_Witness ==
  /\ lastAct = "tick"
  /\ ret = "true"
  /\ notified = 1
  /\ ~raf
  /\ hstate = gs
  /\ Cardinality(gs.done) >= 2
  /\ gs.date >= SeedState.date + 48

\* C7: when the host has set stopped to true while the simulation runs, the
\* next frame schedules no further frame.
C7_StoppedFlagCancels ==
  [][(raf /\ stopped /\ lastAct' = "tick") => ~raf']_vars

\* the dispatched event of a process call, when it is of the given type
Dispatched(d, type) == d # <<>> /\ d[1].type = type

\* the match ids of a round of the current season (round counts from 0)
RoundIds(s, round) == s.schedules["now"][round + 1].matchIds

ArchivedKeys(s) == DOMAIN s.schedules \ {"now"}

\* the match ids the rounds of a stored schedule reference
ReferencedIds(rounds) ==
  {rounds[k].matchIds[i] : <<k, i>> \in
     {p \in (1..Len(rounds)) \X (1..(2 * MaxHalf)) : p[2] <= Len(rounds[p[1]].matchIds)}}

SomeResult(s) == \E id \in DOMAIN s.matches : s.matches[id].result = "set"

\* C13 as the spec states it: after a seasonStart handled on a state that
\* holds 8 teams, a process call that reports stop leaves a current-season
\* schedule of 7 rounds, and from the dispatch of the first simRound on some
\* match carries a result.
C13_SevenRounds ==
  [][lastAct' = "tick" =>
       /\ ret' = "true" => (hasNow(gs') /\ Len(gs'.schedules["now"]) = 7)
       /\ (Dispatched(disp', "simRound") \/ SomeResult(gs)) => SomeResult(gs')]_vars

\* C13 amended: after a seasonStart handled on a state that holds 8 teams, a
\* process call that reports stop leaves a current-season schedule of 14
\* rounds, the two legs of a double round robin, and from the dispatch of
\* the first simRound on some match carries a result.
C13_FourteenRounds ==
  [][lastAct' = "tick" =>
       /\ ret' = "true" => (hasNow(gs') /\ Len(gs'.schedules["now"]) = 14)
       /\ (Dispatched(disp', "simRound") \/ SomeResult(gs)) => SomeResult(gs')]_vars

\* the season end has stopped a run: the 14 rounds of 4 matches of the 8
\* teams are stored and all of them were simulated
C13_Witness ==
  /\ lastAct = "tick"
  /\ ret = "true"
  /\ Dispatched(disp, "seasonEnd")
  /\ Len(gs.teams) = 8
  /\ Len(gs.schedules["now"]) = 14
  /\ Cardinality(DOMAIN gs.matches) = 56
  /\ \A id \in DOMAIN gs.matches : gs.matches[id].result = "set"

\* the state a seasonStart handler is entered with, on a step that handles
\* one: by hand on the state of the handle, or in a process call that has
\* moved the date and taken the event from the queue
StartHandled == lastAct' = "seasonStart" \/ (lastAct' = "tick" /\ Dispatched(disp', "seasonStart"))
StartEntry ==
  IF lastAct' = "tick" THEN [gs EXCEPT !.date = gs'.date, !.eventQueue = Tail(@)]
  ELSE hstate

\* C14: the seasonStart handler fails exactly when the current date is on or
\* after september second 00:00 of the year of the current date; when it
\* fails no schedule is installed, no match stored and no event enqueued;
\* when it succeeds the first round is dated the first sunday on or after
\* september second, 00:00, and simRound 0 at that date and a seasonEnd are
\* enqueued.
C14_TooLateExactly ==
  [][StartHandled =>
       LET e      == StartEntry
           cutoff == NewDate(getFullYear(e.date), 8, 2, 0)
           q      == gs'.eventQueue
       IN  /\ ret' = "throw" <=> e.date >= cutoff
           /\ ret' = "throw" =>
                /\ gs'.schedules = e.schedules
                /\ gs'.matches = e.matches
                /\ q = e.eventQueue
           /\ ret' # "throw" =>
                /\ ret' = "true"
                /\ hasNow(gs')
                /\ LET first == gs'.schedules["now"][1].date
                   IN  /\ getDay(first) = 0
                       /\ getHours(first) = 0
                       /\ first >= cutoff
                       /\ first < cutoff + 7 * 24
                       /\ \E i \in 1..Len(q) :
                            q[i].type = "simRound" /\ q[i].round = 0 /\ q[i].date = first
                /\ \E i \in 1..Len(q) : q[i].type = "seasonEnd"
                /\ Len(q) = Len(e.eventQueue) + 2]_vars

\* a seasonStart was handled in a year whose september second is a sunday:
\* the first round is played that very day
C14_FirstSundayReached ==
  /\ lastAct = "seasonStart"
  /\ ret = "true"
  /\ hasNow(gs)
  /\ getDate(gs.schedules["now"][1].date) = 2
  /\ getMonth(gs.schedules["now"][1].date) = 8

\* a seasonStart handled at september second 00:00 has failed
C14_WitnessThrown ==
  /\ lastAct = "seasonStart"
  /\ ret = "throw"
  /\ getDate(gs.date) = 2
  /\ getHours(gs.date) = 0
  /\ ~hasNow(gs)

\* the places of the events of a type in a queue
PlacesOf(q, type) == {i \in 1..Len(q) : q[i].type = type}

\* every match of a round of the current season carries a result
RoundPlayed(s, round) ==
  \A i \in 1..Len(RoundIds(s, round)) : s.matches[RoundIds(s, round)[i]].result = "set"

\* no match of a round of the current season carries a result
RoundUnplayed(s, round) ==
  \A i \in 1..Len(RoundIds(s, round)) : s.matches[RoundIds(s, round)[i]].result = "none"

\* C15: handling simRound(r) reports continue; when round r+1 exists in the
\* current season schedule it enqueues simRound(r+1) at the date of round
\* r+1 and nothing else, and when it does not exist it enqueues nothing.
\* The simRounds of a season are dispatched for the rounds 0, 1, .. in
\* increasing order, each once: when simRound(r) is dispatched the rounds
\* before r are played and the rounds from r on are not, and no other
\* simRound is queued; when the next season starts every round of the ended
\* season is played and no simRound is queued.
C15_RoundChain ==
  [][lastAct' = "tick" =>
       /\ Dispatched(disp', "simRound") =>
            LET r  == disp'[1].round
                q  == gs.eventQueue
                q2 == gs'.eventQueue
                sr == PlacesOf(q2, "simRound")
            IN  /\ ret' = "false"
                /\ IF hasRound(gs, r + 1)
                   THEN /\ Len(q2) = Len(q)
                        /\ Cardinality(sr) = 1
                        /\ \A i \in sr :
                             /\ q2[i].round = r + 1
                             /\ q2[i].date = gs.schedules["now"][r + 2].date
                             /\ q2[i].id \notin gs.done
                             /\ \A j \in 1..Len(q) : q[j].id # q2[i].id
                   ELSE q2 = Tail(q)
                /\ hasRound(gs, r)
                /\ PlacesOf(q, "simRound") = {1}
                /\ \A k \in 0..(Len(gs.schedules["now"]) - 1) :
                     /\ k < r => RoundPlayed(gs, k)
                     /\ k >= r => RoundUnplayed(gs, k)
                     /\ k <= r => RoundPlayed(gs', k)
                     /\ k > r => RoundUnplayed(gs', k)
       /\ (Dispatched(disp', "seasonStart") /\ hasNow(gs)) =>
            /\ PlacesOf(gs.eventQueue, "simRound") = {}
            /\ \A k \in 0..(Len(gs.schedules["now"]) - 1) : RoundPlayed(gs, k)]_vars

\* the simRound of the last round of the second season was dispatched: the
\* chain of the season has ended
C15_Witness ==
  /\ lastAct = "tick"
  /\ Dispatched(disp, "simRound")
  /\ disp[1].round = Len(gs.schedules["now"]) - 1
  /\ PlacesOf(gs.eventQueue, "simRound") = {}
  /\ ArchivedKeys(gs) # {}
  /\ \A k \in 0..(Len(gs.schedules["now"]) - 1) : RoundPlayed(gs, k)

\* the order in which the events of the seasons are dispatched
SeasonCycle == <<"seasonEnd", "updateContract", "seasonStart">>

\* C16: a dispatched seasonEnd enqueues one seasonStart dated september
\* first of the current year and one updateContract dated one day after the
\* date of the seasonEnd event, and nothing else; a dispatched
\* updateContract enqueues nothing and decrements the contracts once, and
\* no other event decrements them; the seasonEnd, updateContract and
\* seasonStart events are dispatched in this order, one of each per season,
\* so the contracts are decremented once per season.
C16_SeasonCycle ==
  [][lastAct' = "tick" =>
       LET q  == gs.eventQueue
           q2 == gs'.eventQueue
       IN  /\ Dispatched(disp', "seasonEnd") =>
                LET ss == PlacesOf(q2, "seasonStart")
                    uc == PlacesOf(q2, "updateContract")
                IN  /\ Len(q2) = Len(q) + 1
                    /\ Cardinality(ss) = 1
                    /\ Cardinality(uc) = 1
                    /\ \A i \in ss :
                         /\ q2[i].date = NewDate(getFullYear(gs'.date), 8, 1, 0)
                         /\ \A j \in 1..Len(q) : q[j].id # q2[i].id
                    /\ \A i \in uc :
                         /\ q2[i].date = disp'[1].date + 24
                         /\ \A j \in 1..Len(q) : q[j].id # q2[i].id
           /\ Dispatched(disp', "updateContract") =>
                (q2 = Tail(q) /\ gs'.aged = gs.aged + 1 /\ ret' = "false")
           /\ ~Dispatched(disp', "updateContract") => gs'.aged = gs.aged
           /\ \A i \in 1..Len(gs'.log) : gs'.log[i] = SeasonCycle[((i - 1) % 3) + 1]
           /\ gs'.aged = Cardinality(PlacesOf([i \in 1..Len(gs'.log) |-> [type |-> gs'.log[i]]],
                                              "updateContract"))]_vars

\* two seasons have ended and the third has started: the contracts were
\* decremented twice
C16_Witness ==
  /\ lastAct = "tick"
  /\ Dispatched(disp, "seasonStart")
  /\ gs.log = SeasonCycle \o SeasonCycle
  /\ gs.aged = 2

\* C17: when process dispatches an event the current date is not before
\* the date of the event and less than 12 hours after it; a seasonStart,
\* dated september first, is dispatched before september second of that
\* year, and no process call throws.
C17_DispatchedInTime ==
  [][lastAct' = "tick" =>
       /\ ret' # "throw"
       /\ disp' # <<>> =>
            /\ gs'.date >= disp'[1].date
            /\ gs'.date - disp'[1].date < 12
       /\ Dispatched(disp', "seasonStart") =>
            /\ getMonth(disp'[1].date) = 8
            /\ getDate(disp'[1].date) = 1
            /\ gs'.date < NewDate(getFullYear(disp'[1].date), 8, 2, 0)]_vars

\* a seasonStart was dispatched some hours after its date and has installed
\* the schedule of the new season
C17_Witness ==
  /\ lastAct = "tick"
  /\ ret = "true"
  /\ Dispatched(disp, "seasonStart")
  /\ gs.date > disp[1].date
  /\ ArchivedKeys(gs) # {}
  /\ RoundUnplayed(gs, 0)

\* one skillUpdate, one seasonEnd or seasonStart, at most one simRound and at
\* most one updateContract, and nothing else
QueueShape(q) ==
  /\ Cardinality(PlacesOf(q, "skillUpdate")) = 1
  /\ Cardinality(PlacesOf(q, "seasonEnd") \cup PlacesOf(q, "seasonStart")) = 1
  /\ Cardinality(PlacesOf(q, "simRound")) <= 1
  /\ Cardinality(PlacesOf(q, "updateContract")) <= 1
  /\ \A i \in 1..Len(q) : q[i].type \in EventTypes

\* C18: between process calls the queue of the working copy, and the queue
\* of the published state, hold one skillUpdate, one event that is a
\* seasonEnd or a seasonStart, at most one simRound and at most one
\* updateContract; the queue is never empty, and a process call that reports
\* stop has dispatched an event.
C18_QueueShape ==
  /\ QueueShape(gs.eventQueue)
  /\ QueueShape(hstate.eventQueue)
  /\ gs.eventQueue # <<>>
  /\ (lastAct = "tick" /\ ret = "true") => disp # <<>>

\* between a seasonEnd and its updateContract the queue holds neither a
\* simRound nor a seasonEnd: skillUpdate, updateContract and seasonStart
C18_Witness ==
  /\ lastAct = "tick"
  /\ Dispatched(disp, "seasonEnd")
  /\ Len(gs.eventQueue) = 3
  /\ PlacesOf(gs.eventQueue, "updateContract") # {}
  /\ PlacesOf(gs.eventQueue, "seasonStart") # {}
  /\ PlacesOf(gs.eventQueue, "simRound") = {}

\* the seasonEnd and seasonStart events among the dispatched ones
SeasonEnds(log) == SelectSeq(log, LAMBDA t : t \in {"seasonEnd", "seasonStart"})

\* every event enqueued so far was dispatched, but for the queued events at
\* dates the followed game does not cover
AllDispatchedInTime ==
  /\ gs.date >= horizon
  /\ gs.nextId <= MaxEvents
  /\ \A id \in 1..(gs.nextId - 1) :
       \/ id \in gs.done
       \/ \E i \in 1..Len(gs.eventQueue) :
            gs.eventQueue[i].id = id /\ gs.eventQueue[i].date + NEXT_HOURS > horizon

\* C19: with a host that keeps invoking process, every event that is
\* enqueued, at a date the followed game covers, is eventually dispatched:
\* the clock reaches the end of the followed game with all of them
\* dispatched; the events a process call enqueues are dated after the
\* current date, so they do not stall the clock; the dispatches of seasonEnd and seasonStart alternate, and
\* each one is followed by the next: a seasonEnd by the seasonStart of
\* september first of that year, a seasonStart by the seasonEnd of june
\* first of the next year.
C19_EveryEventDispatched ==
  /\ <>[]AllDispatchedInTime
  /\ [][lastAct' = "tick" =>
         \A i \in 1..Len(gs'.eventQueue) :
           gs'.eventQueue[i].id >= gs.nextId => gs'.eventQueue[i].date > gs'.date]_vars
  /\ [](\A i \in 1..(Len(SeasonEnds(gs.log)) - 1) :
          SeasonEnds(gs.log)[i] # SeasonEnds(gs.log)[i + 1])
  /\ (Dispatched(disp, "seasonEnd")
        /\ NewDate(getFullYear(gs.date), 8, 1, NEXT_HOURS) <= horizon)
       ~> Dispatched(disp, "seasonStart")
  /\ (Dispatched(disp, "seasonStart")
        /\ NewDate(getFullYear(gs.date) + 1, 5, 1, NEXT_HOURS) <= horizon)
       ~> Dispatched(disp, "seasonEnd")

\* the seasonStart that the second seasonEnd enqueued was dispatched, as
\* were the events enqueued before it
C19_Witness ==
  /\ lastAct = "tick"
  /\ Dispatched(disp, "seasonStart")
  /\ SeasonEnds(gs.log) = <<"seasonEnd", "seasonStart", "seasonEnd", "seasonStart">>
  /\ \A id \in 1..(disp[1].id - 1) : id \in gs.done

\* a run is going on whose next skillUpdate is at a date the followed game
\* covers
RunInGame ==
  /\ raf
  /\ \E i \in PlacesOf(gs.eventQueue, "skillUpdate") :
       gs.eventQueue[i].date + NEXT_HOURS <= horizon

\* process has reported stop, the working copy was published, the observers
\* were notified and no frame is requested
RunEnded ==
  /\ ~raf
  /\ stopped
  /\ ret = "true"
  /\ hstate = gs
  /\ notified = 1

\* C20: with a browser that delivers the frames, every run ends: a process
\* call reports stop, the working copy is published to the handle and no
\* further frame is requested by that run.
C20_RunTerminates == RunInGame ~> RunEnded

\* late in the game a run of many frames has ended with a skillUpdate
C20_Witness ==
  /\ RunEnded
  /\ lastAct = "tick"
  /\ Dispatched(disp, "skillUpdate")
  /\ gs.date >= gs.lastDate
  /\ ArchivedKeys(gs) # {}
  /\ Len(gs.log) >= 3

====
